---- MODULE Spec2Model ----
(***************************************************************************)
(* Dynamic e-Pharmacophore Analysis Tool (dynophore_feature_analysis.py).  *)
(*                                                                         *)
(* The script is a straight-line batch pipeline:                           *)
(*   feature table parsing -> RMSD file parsing -> hypothesis statistics   *)
(*   -> summary -> HTML/PDF report -> charts -> organise outputs           *)
(*   -> copy best hypotheses.                                              *)
(*                                                                         *)
(* Representation.                                                         *)
(*   - a string is a sequence of one-character strings, so that digit      *)
(*     stripping, concatenation and len() are computed, not assumed;       *)
(*   - an RMSD value is an integer number of 1e-4 units; round(x, 3) is    *)
(*     rounding to a multiple of 10 of those units;                        *)
(*   - feature_counts['Percent'] is the exact rational num/den; the        *)
(*     summary's round(Percent, 1) is an integer number of tenths;         *)
(*   - DataFrame.sort_values / Series.value_counts are called with the     *)
(*     default kind='quicksort', which pandas documents as not stable:     *)
(*     the order of rows with equal keys is a nondeterministic choice.     *)
(*   - rendering (HTML, PDF, charts) and file moves are taken to succeed;  *)
(*     os.path.exists on an archived hypothesis may answer either way.     *)
(***************************************************************************)
EXTENDS Integers, Sequences, FiniteSets, TLC

\* ---------------------------------------------------------------- bounds
\* rows of the trajectory file after the optional leading text row
MaxFrames == 3
\* a second value of the top_n configuration parameter, next to its default
SmallTopN == 2

\* ------------------------------------------------- configuration constants
top_n == 10
exclude_lengths == {1, 2, 3}
SentinelFrameId == 5002
MinBestLength == 4
BestCount == 3

TopNs == {SmallTopN, top_n}

\* ------------------------------------------------------------- strings
Digits == {"0", "1", "2", "3", "4", "5", "6", "7", "8", "9"}

IsDigit(c) == c \in Digits

\* re.sub(r'\d+', '', feat): every digit character is removed
StripDigits(feat) == SelectSeq(feat, LAMBDA c : ~IsDigit(c))

RECURSIVE Join(_)
\* ''.join(list of strings)
Join(strs) == IF strs = <<>> THEN <<>> ELSE Head(strs) \o Join(Tail(strs))

\* features_clean: the signature of one table's label list
features_clean(features_raw) ==
  Join([i \in 1..Len(features_raw) |-> StripDigits(features_raw[i])])

\* the fillna('-') marker
Unmatched == <<"-">>

\* ------------------------------------------------------ feature tables
\* A per-frame CSV as pd.read_csv returns it: named columns of cells; an
\* unreadable or malformed file has readable = FALSE (open/read_csv raises).
Col(name, cells) == [name |-> name, cells |-> cells]

Table(readable, columns) == [readable |-> readable, columns |-> columns]

HasFeatureLabel(df) ==
  \E i \in 1..Len(df.columns) : df.columns[i].name = "Feature_label"

\* 'Feature_label' if 'Feature_label' in df.columns else df.columns[1];
\* df.columns[1] raises IndexError on a one-column table
FeatureColUsable(df) == HasFeatureLabel(df) \/ Len(df.columns) >= 2

feature_col(df) ==
  IF HasFeatureLabel(df)
    THEN df.columns[CHOOSE i \in 1..Len(df.columns) :
                       df.columns[i].name = "Feature_label"]
    ELSE df.columns[2]

\* the body of the try block succeeds
ParsesOk(df) == df.readable /\ FeatureColUsable(df)

features_raw(df) == feature_col(df).cells

\* ------------------------------------------------------ trajectory file
\* A row of trajrmsd.dat as read with header=None: a numeric row carries
\* Frame and RMSD; a text row (an uncommented header line, a damaged line)
\* is not numeric and makes astype(int) raise wherever it survives iloc[1:].
DataRow(frame, rmsd) == [numeric |-> TRUE, Frame |-> frame, RMSD |-> rmsd]

TextRow == [numeric |-> FALSE, Frame |-> 0, RMSD |-> 0]

\* rmsd_df.iloc[1:]: the first parsed row is dropped, whatever it holds
DropFirstRow(rows) == IF rows = <<>> THEN <<>> ELSE Tail(rows)

\* astype(int) / astype(float) succeed on every remaining row
RmsdParses(rows) ==
  \A i \in 1..Len(DropFirstRow(rows)) : DropFirstRow(rows)[i].numeric

InDomain(fmap, k) == k \in DOMAIN fmap

\* .map(frame_feature_map).fillna('-')
MapFeatures(fmap, frame_id) ==
  IF InDomain(fmap, frame_id) THEN fmap[frame_id] ELSE Unmatched

KeepFrame(frame_id) == frame_id # SentinelFrameId

FrameIdOf(frame) == frame + 1

\* lines 73-78: the merged per-frame records, in file order
MergeRmsd(rows, fmap) ==
  LET kept == SelectSeq(DropFirstRow(rows),
                        LAMBDA r : KeepFrame(FrameIdOf(r.Frame)))
  IN  [i \in 1..Len(kept) |->
         [Frame_ID |-> FrameIdOf(kept[i].Frame),
          RMSD     |-> kept[i].RMSD,
          Features |-> MapFeatures(fmap, FrameIdOf(kept[i].Frame))]]

\* ------------------------------------------------- hypothesis statistics
RECURSIVE FirstOccurrences(_, _)
\* the distinct values of a column in order of first appearance
FirstOccurrences(vals, seen) ==
  IF vals = <<>> THEN <<>>
  ELSE IF Head(vals) \in seen THEN FirstOccurrences(Tail(vals), seen)
  ELSE <<Head(vals)>> \o FirstOccurrences(Tail(vals), seen \cup {Head(vals)})

\* rmsd_df[rmsd_df['Features'] != '-']
MatchedRows(df) == SelectSeq(df, LAMBDA r : r.Features # Unmatched)

CountOf(df, feat) == Cardinality({i \in 1..Len(df) : df[i].Features = feat})

\* 100 * Count / total_frames, kept exact as a fraction
PercentOf(count, total) == [num |-> 100 * count, den |-> total]

\* value_counts() before its sort: one row per distinct signature
CountRows(df, total) ==
  LET m    == MatchedRows(df)
      sigs == FirstOccurrences([i \in 1..Len(m) |-> m[i].Features], {})
  IN  [i \in 1..Len(sigs) |->
         [Features |-> sigs[i],
          Count    |-> CountOf(df, sigs[i]),
          Percent  |-> PercentOf(CountOf(df, sigs[i]), total),
          Length   |-> Len(sigs[i])]]

Perms(n) == {f \in [1..n -> 1..n] : \A i, j \in 1..n : i # j => f[i] # f[j]}

CountDescending(rows) ==
  \A i \in 1..(Len(rows) - 1) : rows[i].Count >= rows[i + 1].Count

\* sort_values(by='Count', ascending=False) with kind='quicksort': every
\* arrangement of the rows that is non-increasing in Count can come out
SortByCountDesc(rows) ==
  {r \in {[i \in 1..Len(rows) |-> rows[p[i]]] : p \in Perms(Len(rows))} :
     CountDescending(r)}

\* ---------------------------------------------------------------- rounding
\* round half to even of a / b, for a >= 0 and b > 0
RoundDiv(a, b) ==
  LET q == a \div b
      r == a % b
  IN  IF 2 * r < b THEN q
      ELSE IF 2 * r > b THEN q + 1
      ELSE IF q % 2 = 0 THEN q ELSE q + 1

\* round(x, 3) of an RMSD held in 1e-4 units, again in 1e-4 units
Round3(x) == 10 * RoundDiv(x, 10)

\* variant: the decimals beyond the first are cut off instead of rounded
Round1Truncated(pct) == (10 * pct.num) \div pct.den

\* round(Percent, 1), in tenths of a percent
Round1(pct) == RoundDiv(10 * pct.num, pct.den)

\* ------------------------------------------------------------------ summary
\* subset = rmsd_df[rmsd_df['Features'] == feat]
Subset(df, feat) == SelectSeq(df, LAMBDA r : r.Features = feat)

\* variant: the last row holding the minimum
IdxMinLast(subset) ==
  CHOOSE i \in 1..Len(subset) :
    /\ \A j \in 1..Len(subset) : subset[i].RMSD <= subset[j].RMSD
    /\ \A j \in (i + 1)..Len(subset) : subset[j].RMSD > subset[i].RMSD

\* subset['RMSD'].idxmin(): the first row holding the minimum
IdxMin(subset) ==
  CHOOSE i \in 1..Len(subset) :
    /\ \A j \in 1..Len(subset) : subset[i].RMSD <= subset[j].RMSD
    /\ \A j \in 1..(i - 1) : subset[j].RMSD > subset[i].RMSD

SummaryRecord(df, row) ==
  LET subset  == Subset(df, row.Features)
      min_row == subset[IdxMin(subset)]
  IN  [Features    |-> row.Features,
       Lowest_RMSD |-> Round3(min_row.RMSD),
       Frame       |-> min_row.Frame_ID,
       Count       |-> row.Count,
       Length      |-> Len(row.Features),
       Percent     |-> Round1(row.Percent)]

\* the loop over feature_counts.iterrows()
SummaryRecords(df, counts) ==
  [i \in 1..Len(counts) |-> SummaryRecord(df, counts[i])]

\* ------------------------------------------------------------ selections
RECURSIVE InsertByPercent(_, _)
\* put x behind every row whose Percent is at least its own
InsertByPercent(x, rows) ==
  IF rows = <<>> THEN <<x>>
  ELSE IF Head(rows).Percent >= x.Percent
         THEN <<Head(rows)>> \o InsertByPercent(x, Tail(rows))
         ELSE <<x>> \o rows

RECURSIVE OrderByPercent(_, _)
OrderByPercent(rows, acc) ==
  IF rows = <<>> THEN acc
  ELSE OrderByPercent(Tail(rows), InsertByPercent(Head(rows), acc))

HeadN(rows, n) == SubSeq(rows, 1, IF n < Len(rows) THEN n ELSE Len(rows))

\* .nlargest(n, 'Percent'), keep='first': Percent descending, rows of equal
\* Percent in their order of appearance
NLargest(rows, n) == HeadN(OrderByPercent(rows, <<>>), n)

\* variant: the Length filter is left out
NothingExcluded(row) == TRUE

NotExcluded(row) == row.Length \notin exclude_lengths

\* summary_df[~summary_df['Length'].isin(exclude_lengths)].nlargest(top_n, 'Percent')
PlotDf(summary, n) == NLargest(SelectSeq(summary, NotExcluded), n)

\* variant: the threshold is exclusive
LongerThanThreshold(row) == row.Length > MinBestLength

LongEnough(row) == row.Length >= MinBestLength

\* summary_df[summary_df['Length'] >= 4].head(3)
FilteredSummary(summary) == HeadN(SelectSeq(summary, LongEnough), BestCount)

\* -------------------------------------------------------------- inputs
\* feature labels as the tables hold them: a letter and an instance index
A1 == <<"A", "1">>
A2 == <<"A", "2">>
A12 == <<"A", "1", "2">>
D1 == <<"D", "1">>
D2 == <<"D", "2">>
H1 == <<"H", "1">>
H2 == <<"H", "2">>
R1 == <<"R", "1">>
R2 == <<"R", "2">>
Dash1 == <<"-", "1">>

Ids(n) == [i \in 1..n |-> <<"i", "d">>]

\* 'Feature_label' present, as the first column
TabADHR ==
  Table(TRUE, <<Col("Feature_label", <<A1, D2, H1, R2>>), Col("Score", Ids(4))>>)
\* no 'Feature_label' column: the second column is taken; the labels differ
\* from TabADHR's in their instance indices only
TabADHRb ==
  Table(TRUE, <<Col("Index", Ids(4)), Col("Label", <<A12, D1, H2, R1>>)>>)
\* a table whose only label strips down to the '-' marker
TabDash ==
  Table(TRUE, <<Col("Index", Ids(1)), Col("Feature_label", <<Dash1>>)>>)
\* a one-column table without 'Feature_label': df.columns[1] raises
TabOneColumn == Table(TRUE, <<Col("Label", <<A1, D2>>)>>)
\* open() or read_csv raises
TabUnreadable == Table(FALSE, <<>>)
\* signatures of lengths 2, 4, 4, 5, 4
TabHR == Table(TRUE, <<Col("Index", Ids(2)), Col("Feature_label", <<H1, R2>>)>>)
TabAADH ==
  Table(TRUE, <<Col("Index", Ids(4)), Col("Feature_label", <<A1, A2, D1, H1>>)>>)
TabDHRR ==
  Table(TRUE, <<Col("Index", Ids(4)), Col("Feature_label", <<D1, H1, R1, R2>>)>>)
TabARRHD ==
  Table(TRUE, <<Col("Index", Ids(5)), Col("Feature_label", <<A1, R1, R2, H1, D1>>)>>)

File(df) == [present |-> TRUE, df |-> df]
NoFile == [present |-> FALSE, df |-> TabUnreadable]

\* csv_files: the files of the directory that match the name pattern, in
\* sorted order, each with the frame index of its name
CsvFiles(src) ==
  LET ids == SelectSeq([k \in 1..Len(src) |-> k], LAMBDA k : src[k].present)
  IN  [j \in 1..Len(ids) |-> [frame_id |-> ids[j], df |-> src[ids[j]].df]]

RmsdVals == {4, 16}

\* what may follow the regular rows: nothing, the artifact frame whose
\* frame + 1 is 5002, or a damaged line
NoTail == <<>>
ArtifactTail == <<DataRow(SentinelFrameId - 1, 4)>>
DamagedTail == <<TextRow>>

\* the rows of a trajectory file: an optional uncommented header line, the
\* frames 0, 1, ... with their RMSD, and a tail
TrajRows(header, rmsds, tail) ==
  (IF header THEN <<TextRow>> ELSE <<>>)
    \o [k \in 1..Len(rmsds) |-> DataRow(k - 1, rmsds[k])]
    \o tail

SeqsUpTo(S, n) == UNION {[1..m -> S] : m \in 0..n}

CoreSources == {NoFile, File(TabOneColumn), File(TabADHR), File(TabADHRb),
                File(TabDash)}

\* one choice of table per frame index, trajectories of up to MaxFrames frames
CoreInputs ==
  {[files |-> CsvFiles(src), rows |-> TrajRows(h, r, t), n |-> top_n] :
     src \in [1..MaxFrames -> CoreSources],
     h \in BOOLEAN, r \in SeqsUpTo(RmsdVals, MaxFrames),
     t \in {NoTail, ArtifactTail}}

\* many hypotheses of several lengths: frame k has the k-th of four tables
\* with signatures of four or five characters (taken in turn), or no table;
\* the first file may be unreadable, the fourth may hold a short signature
RankFrames == 5
RankTables == <<TabADHR, TabAADH, TabDHRR, TabARRHD>>
RankTable(k) == RankTables[((k - 1) % Len(RankTables)) + 1]
RankSources(k) ==
  {NoFile, File(RankTable(k))}
    \cup (IF k = 1 THEN {File(TabUnreadable)} ELSE {})
    \cup (IF k = Len(RankTables) THEN {File(TabHR)} ELSE {})

RankSrcs ==
  {src \in [1..RankFrames -> UNION {RankSources(k) : k \in 1..RankFrames}] :
     \A k \in 1..RankFrames : src[k] \in RankSources(k)}

RankInputs ==
  {[files |-> CsvFiles(src),
    rows  |-> TrajRows(TRUE, [k \in 1..RankFrames |-> 10 * k], t),
    n     |-> n] :
     src \in RankSrcs, t \in {NoTail, DamagedTail}, n \in TopNs}

\* ---------------------------------------------------------------- state
VARIABLES
  csv_files,          \* input: the per-frame tables found in PROCESSED_FILES
  traj_rows,          \* input: the rows of trajrmsd.dat
  topn,               \* configuration: top_n
  pc,                 \* position in the script
  k,                  \* index of the running loop
  frame_feature_map,  \* frame index -> signature
  read_errors,        \* frame indices of the "Error reading ..." messages
  rmsd_df,            \* the merged per-frame records
  total_frames,
  feature_counts,
  summary_records,
  summary_df,
  plot_df,
  base_files,         \* report and chart files in base_dir
  results_files,      \* files in DYNOPHORE_RESULTS
  filtered_summary,
  best_hypotheses,    \* frames whose .phypo was copied to BEST_HYPOTHESES
  missing_warnings    \* frames of the "Warning: ... not found" messages

vars == <<csv_files, traj_rows, topn, pc, k, frame_feature_map, read_errors,
          rmsd_df, total_frames, feature_counts, summary_records, summary_df,
          plot_df, base_files, results_files, filtered_summary,
          best_hypotheses, missing_warnings>>

inputs == <<csv_files, traj_rows, topn>>

EmptyMap == [x \in {} |-> <<>>]

Start(inp) ==
  /\ csv_files = inp.files
  /\ traj_rows = inp.rows
  /\ topn = inp.n
  /\ pc = "load"
  /\ k = 1
  /\ frame_feature_map = EmptyMap
  /\ read_errors = <<>>
  /\ rmsd_df = <<>>
  /\ total_frames = 0
  /\ feature_counts = <<>>
  /\ summary_records = <<>>
  /\ summary_df = <<>>
  /\ plot_df = <<>>
  /\ base_files = {}
  /\ results_files = {}
  /\ filtered_summary = <<>>
  /\ best_hypotheses = <<>>
  /\ missing_warnings = <<>>

Init == \E inp \in CoreInputs \cup RankInputs : Start(inp)

\* --------------------------------------------------------------- actions
\* lines 55-67: one pass of the loop whose try block completes
ReadTable ==
  /\ pc = "load"
  /\ k <= Len(csv_files)
  /\ ParsesOk(csv_files[k].df)
  /\ frame_feature_map' =
       [f \in DOMAIN frame_feature_map \cup {csv_files[k].frame_id} |->
          IF f = csv_files[k].frame_id
            THEN features_clean(features_raw(csv_files[k].df))
            ELSE frame_feature_map[f]]
  /\ k' = k + 1
  /\ UNCHANGED <<inputs, pc, read_errors, rmsd_df, total_frames,
                 feature_counts, summary_records, summary_df, plot_df,
                 base_files, results_files, filtered_summary,
                 best_hypotheses, missing_warnings>>

\* variant: the exception of the try block is not caught
ReadTableAbort ==
  /\ pc = "load"
  /\ k <= Len(csv_files)
  /\ ~ParsesOk(csv_files[k].df)
  /\ pc' = "crashed"
  /\ UNCHANGED <<inputs, k, frame_feature_map, read_errors, rmsd_df,
                 total_frames, feature_counts, summary_records, summary_df,
                 plot_df, base_files, results_files, filtered_summary,
                 best_hypotheses, missing_warnings>>

\* lines 68-69: the try block raises; the message is printed, the loop goes on
ReadTableError ==
  /\ pc = "load"
  /\ k <= Len(csv_files)
  /\ ~ParsesOk(csv_files[k].df)
  /\ read_errors' = Append(read_errors, csv_files[k].frame_id)
  /\ k' = k + 1
  /\ UNCHANGED <<inputs, pc, frame_feature_map, rmsd_df, total_frames,
                 feature_counts, summary_records, summary_df, plot_df,
                 base_files, results_files, filtered_summary,
                 best_hypotheses, missing_warnings>>

\* the loop over csv_files is over
TablesDone ==
  /\ pc = "load"
  /\ k > Len(csv_files)
  /\ pc' = "rmsd"
  /\ UNCHANGED <<inputs, k, frame_feature_map, read_errors, rmsd_df,
                 total_frames, feature_counts, summary_records, summary_df,
                 plot_df, base_files, results_files, filtered_summary,
                 best_hypotheses, missing_warnings>>

\* lines 72-78
ParseRmsd ==
  /\ pc = "rmsd"
  /\ RmsdParses(traj_rows)
  /\ rmsd_df' = MergeRmsd(traj_rows, frame_feature_map)
  /\ pc' = "stats"
  /\ UNCHANGED <<inputs, k, frame_feature_map, read_errors, total_frames,
                 feature_counts, summary_records, summary_df, plot_df,
                 base_files, results_files, filtered_summary,
                 best_hypotheses, missing_warnings>>

\* lines 72-75 raise: the exception is not caught and ends the process
ParseRmsdError ==
  /\ pc = "rmsd"
  /\ ~RmsdParses(traj_rows)
  /\ pc' = "crashed"
  /\ UNCHANGED <<inputs, k, frame_feature_map, read_errors, rmsd_df,
                 total_frames, feature_counts, summary_records, summary_df,
                 plot_df, base_files, results_files, filtered_summary,
                 best_hypotheses, missing_warnings>>

\* lines 81-85
HypothesisStatistics ==
  /\ pc = "stats"
  /\ total_frames' = Len(rmsd_df)
  /\ feature_counts' \in SortByCountDesc(CountRows(rmsd_df, Len(rmsd_df)))
  /\ pc' = "check"
  /\ UNCHANGED <<inputs, k, frame_feature_map, read_errors, rmsd_df,
                 summary_records, summary_df, plot_df, base_files,
                 results_files, filtered_summary, best_hypotheses,
                 missing_warnings>>

\* variant: the emptiness test is left out
NeverEmpty(counts) == FALSE

NoHypotheses(counts) == counts = <<>>

\* lines 87-89
ExitNoHypotheses ==
  /\ pc = "check"
  /\ NoHypotheses(feature_counts)
  /\ pc' = "exited"
  /\ UNCHANGED <<inputs, k, frame_feature_map, read_errors, rmsd_df,
                 total_frames, feature_counts, summary_records, summary_df,
                 plot_df, base_files, results_files, filtered_summary,
                 best_hypotheses, missing_warnings>>

\* lines 91-104
BuildSummary ==
  /\ pc = "check"
  /\ ~NoHypotheses(feature_counts)
  /\ summary_records' = SummaryRecords(rmsd_df, feature_counts)
  /\ summary_df' \in SortByCountDesc(SummaryRecords(rmsd_df, feature_counts))
  /\ pc' = "report"
  /\ UNCHANGED <<inputs, k, frame_feature_map, read_errors, rmsd_df,
                 total_frames, feature_counts, plot_df, base_files,
                 results_files, filtered_summary, best_hypotheses,
                 missing_warnings>>

ReportFiles == {"Feature_Summary_Report.html", "Feature_Analysis_Report.pdf"}

ChartFiles == {"Feature_PieChart.png", "Feature_BarChart.png",
               "Feature_StackedBarChart.png"}

\* lines 107-132
WriteReport ==
  /\ pc = "report"
  /\ base_files' = base_files \cup ReportFiles
  /\ pc' = "charts"
  /\ UNCHANGED <<inputs, k, frame_feature_map, read_errors, rmsd_df,
                 total_frames, feature_counts, summary_records, summary_df,
                 plot_df, results_files, filtered_summary, best_hypotheses,
                 missing_warnings>>

\* lines 135-172
SaveCharts ==
  /\ pc = "charts"
  /\ plot_df' = PlotDf(summary_df, topn)
  /\ base_files' = base_files \cup ChartFiles
  /\ pc' = "organize"
  /\ UNCHANGED <<inputs, k, frame_feature_map, read_errors, rmsd_df,
                 total_frames, feature_counts, summary_records, summary_df,
                 results_files, filtered_summary, best_hypotheses,
                 missing_warnings>>

\* lines 175-196: the result files are moved, the export list is selected
OrganizeOutputs ==
  /\ pc = "organize"
  /\ results_files' = results_files \cup base_files
  /\ base_files' = {}
  /\ filtered_summary' = FilteredSummary(summary_df)
  /\ k' = 1
  /\ pc' = "export"
  /\ UNCHANGED <<inputs, frame_feature_map, read_errors, rmsd_df,
                 total_frames, feature_counts, summary_records, summary_df,
                 plot_df, best_hypotheses, missing_warnings>>

\* lines 197-203: os.path.exists(src_path) holds
CopyHypothesis ==
  /\ pc = "export"
  /\ k <= Len(filtered_summary)
  /\ best_hypotheses' = Append(best_hypotheses, filtered_summary[k].Frame)
  /\ k' = k + 1
  /\ UNCHANGED <<inputs, pc, frame_feature_map, read_errors, rmsd_df,
                 total_frames, feature_counts, summary_records, summary_df,
                 plot_df, base_files, results_files, filtered_summary,
                 missing_warnings>>

\* lines 204-205: the artifact is not in saved_HYPOTHESIS
WarnMissingHypothesis ==
  /\ pc = "export"
  /\ k <= Len(filtered_summary)
  /\ missing_warnings' = Append(missing_warnings, filtered_summary[k].Frame)
  /\ k' = k + 1
  /\ UNCHANGED <<inputs, pc, frame_feature_map, read_errors, rmsd_df,
                 total_frames, feature_counts, summary_records, summary_df,
                 plot_df, base_files, results_files, filtered_summary,
                 best_hypotheses>>

\* lines 207-208
Finish ==
  /\ pc = "export"
  /\ k > Len(filtered_summary)
  /\ pc' = "done"
  /\ UNCHANGED <<inputs, k, frame_feature_map, read_errors, rmsd_df,
                 total_frames, feature_counts, summary_records, summary_df,
                 plot_df, base_files, results_files, filtered_summary,
                 best_hypotheses, missing_warnings>>

Next ==
  \/ ReadTable
  \/ ReadTableError
  \/ TablesDone
  \/ ParseRmsd
  \/ ParseRmsdError
  \/ HypothesisStatistics
  \/ ExitNoHypotheses
  \/ BuildSummary
  \/ WriteReport
  \/ SaveCharts
  \/ OrganizeOutputs
  \/ CopyHypothesis
  \/ WarnMissingHypothesis
  \/ Finish

Spec == Init /\ [][Next]_vars

\* ------------------------------------------------------------ properties
Merged == pc \notin {"load", "rmsd", "crashed"}

Counted == Merged /\ pc # "stats"

Downstream == {"report", "charts", "organize", "export", "done"}

Summarized == pc \in Downstream

Charted == pc \in {"organize", "export", "done"}

Selected == pc \in {"export", "done"}

RECURSIVE SumOf(_)
SumOf(ns) == IF ns = <<>> THEN 0 ELSE Head(ns) + SumOf(Tail(ns))

SumCounts(rows) == SumOf([i \in 1..Len(rows) |-> rows[i].Count])

\* records whose frame_id has no entry in the frame -> signature mapping
NoEntryRecords ==
  {i \in 1..Len(rmsd_df) : rmsd_df[i].Frame_ID \notin DOMAIN frame_feature_map}

\* records carrying the '-' marker
MarkedRecords == {i \in 1..Len(rmsd_df) : rmsd_df[i].Features = Unmatched}

Members(feat) == {i \in 1..Len(rmsd_df) : rmsd_df[i].Features = feat}

\* C1: after aggregation the sum of Count over all hypothesis groups plus the
\* number of records whose frame_id has no entry in the frame -> signature
\* mapping equals total_frames, the number of all merged frame records.
C1_CountsPlusNoEntry ==
  Counted =>
    /\ total_frames = Len(rmsd_df)
    /\ SumCounts(feature_counts) + Cardinality(NoEntryRecords) = total_frames

\* The partition the code does keep: groups and '-' records make up the total.
CountsPlusMarked ==
  Counted =>
    SumCounts(feature_counts) + Cardinality(MarkedRecords) = total_frames

\* the least RMSD among the records of a signature, by exhaustive comparison
TrueMin(feat) ==
  CHOOSE m \in {rmsd_df[i].RMSD : i \in Members(feat)} :
    \A i \in Members(feat) : m <= rmsd_df[i].RMSD

\* the first record, in trajectory order, that holds the least RMSD
FirstAtMin(feat) ==
  CHOOSE i \in Members(feat) :
    /\ rmsd_df[i].RMSD = TrueMin(feat)
    /\ \A j \in Members(feat) : rmsd_df[j].RMSD = TrueMin(feat) => i <= j

Distance(a, b) == IF a >= b THEN a - b ELSE b - a

\* C2 as stated: Lowest_RMSD equals the true minimum of the members' RMSD and
\* Frame is the first member, in trajectory order, achieving it.
C2_TrueMinimum ==
  Summarized =>
    \A g \in 1..Len(summary_df) :
      /\ summary_df[g].Lowest_RMSD = TrueMin(summary_df[g].Features)
      /\ summary_df[g].Frame = rmsd_df[FirstAtMin(summary_df[g].Features)].Frame_ID

\* C2 amended: Lowest_RMSD is the true minimum of the members' RMSD rounded to
\* three decimals (the multiple of 0.001 nearest to it), and Frame is the
\* frame_id of the first member, in trajectory order, achieving the minimum.
C2_RoundedMinimum ==
  Summarized =>
    \A g \in 1..Len(summary_df) :
      /\ summary_df[g].Lowest_RMSD % 10 = 0
      /\ 2 * Distance(summary_df[g].Lowest_RMSD,
                      TrueMin(summary_df[g].Features)) <= 10
      /\ summary_df[g].Frame = rmsd_df[FirstAtMin(summary_df[g].Features)].Frame_ID

\* a group of three records whose minimum is tied and does not come first
C2_Witness ==
  /\ Summarized
  /\ \E g \in 1..Len(summary_df) :
       LET feat == summary_df[g].Features
       IN  /\ Cardinality(Members(feat)) >= 3
           /\ Cardinality({i \in Members(feat) :
                             rmsd_df[i].RMSD = TrueMin(feat)}) >= 2
           /\ \E i \in Members(feat) :
                i < FirstAtMin(feat) /\ rmsd_df[i].RMSD > TrueMin(feat)

\* the data rows of the trajectory file, in file order
TrajectoryEntries == SelectSeq(traj_rows, LAMBDA r : r.numeric)

\* C3: the merged record set holds, in trajectory order, exactly one record
\* for each trajectory entry whose frame + 1 differs from 5002 and no other
\* record; each has frame_id = frame + 1; 5002 never appears as a frame_id.
C3_OneRecordPerEntry ==
  Merged =>
    LET kept == SelectSeq(TrajectoryEntries,
                          LAMBDA r : r.Frame + 1 # SentinelFrameId)
    IN  /\ Len(rmsd_df) = Len(kept)
        /\ \A i \in 1..Len(rmsd_df) :
             /\ rmsd_df[i].Frame_ID = kept[i].Frame + 1
             /\ rmsd_df[i].RMSD = kept[i].RMSD
        /\ \A i \in 1..Len(rmsd_df) : rmsd_df[i].Frame_ID # SentinelFrameId

\* What the code keeps: the rows behind the first parsed row, less frame 5001.
RecordsFollowFirstRow ==
  Merged =>
    LET rest == IF traj_rows = <<>> THEN <<>> ELSE Tail(traj_rows)
        kept == SelectSeq(rest, LAMBDA r : r.Frame + 1 # SentinelFrameId)
    IN  /\ Len(rmsd_df) = Len(kept)
        /\ \A i \in 1..Len(rmsd_df) :
             /\ rmsd_df[i].Frame_ID = kept[i].Frame + 1
             /\ rmsd_df[i].Frame_ID # SentinelFrameId

\* the sources among the first n files whose table yields a label column
Usable(df) ==
  /\ df.readable
  /\ \/ \E c \in 1..Len(df.columns) : df.columns[c].name = "Feature_label"
     \/ Len(df.columns) >= 2

ParsedAmong(n) == {j \in 1..n : Usable(csv_files[j].df)}

FailedAmong(n) == SelectSeq([j \in 1..n |-> csv_files[j]],
                            LAMBDA f : ~Usable(f.df))

LoaderStateAfter(n) ==
  /\ DOMAIN frame_feature_map = {csv_files[j].frame_id : j \in ParsedAmong(n)}
  /\ \A j \in ParsedAmong(n) :
       frame_feature_map[csv_files[j].frame_id] =
         features_clean(features_raw(csv_files[j].df))
  /\ read_errors = [j \in 1..Len(FailedAmong(n)) |-> FailedAmong(n)[j].frame_id]

\* C4: a failure on any single source never aborts the run: a warning is
\* emitted, every remaining source is still processed, and the mapping holds
\* one entry per successfully parsed source and none for a failed one.
C4_LoaderIsolation ==
  /\ pc = "load" => k \in 1..(Len(csv_files) + 1) /\ LoaderStateAfter(k - 1)
  /\ pc # "load" => LoaderStateAfter(Len(csv_files))
  /\ Cardinality(DOMAIN frame_feature_map) + Len(read_errors)
       = (IF pc = "load" THEN k - 1 ELSE Len(csv_files))

\* the run completed although a source that failed came before one that parsed
C4_Witness ==
  /\ pc = "done"
  /\ \E i, j \in 1..Len(csv_files) :
       /\ i < j
       /\ ~Usable(csv_files[i].df)
       /\ Usable(csv_files[j].df)
       /\ csv_files[j].frame_id \in DOMAIN frame_feature_map
       /\ csv_files[i].frame_id \notin DOMAIN frame_feature_map
  /\ read_errors # <<>>

NothingDownstream ==
  /\ pc \notin Downstream
  /\ summary_records = <<>> /\ summary_df = <<>> /\ plot_df = <<>>
  /\ base_files = {} /\ results_files = {}
  /\ filtered_summary = <<>> /\ best_hypotheses = <<>>
  /\ missing_warnings = <<>>

TrajectoryUnparseable ==
  \E i \in 2..Len(traj_rows) : ~traj_rows[i].numeric

NoGroupFormed == Merged /\ MarkedRecords = 1..Len(rmsd_df)

\* C5: in every run where a fatal condition holds (the trajectory series
\* cannot be parsed, or no hypothesis group can be formed) no downstream
\* stage ever executes: no report, no chart, no moved file, no copied
\* artifact; and the run terminates early only under such a condition, never
\* because of a per-item failure alone.
C5_FatalStopsPipeline ==
  /\ (TrajectoryUnparseable \/ NoGroupFormed) => NothingDownstream
  /\ pc \in {"crashed", "exited"} => (TrajectoryUnparseable \/ NoGroupFormed)
  /\ pc = "crashed" => TrajectoryUnparseable
  /\ (pc = "check" /\ ~NoGroupFormed) => feature_counts # <<>>

\* a run that stopped because every record of a non-empty trajectory is
\* unmatched, although tables were read
C5_Witness ==
  /\ pc = "exited"
  /\ rmsd_df # <<>>
  /\ csv_files # <<>>
  /\ NothingDownstream

\* C6 as stated: the reported Percent of every group equals
\* 100 * Count / total_frames, and the Percent values sum to
\* 100 * matched_frames / total_frames.
C6_ExactPercent ==
  Summarized =>
    /\ \A g \in 1..Len(summary_df) :
         summary_df[g].Percent * total_frames = 1000 * summary_df[g].Count
    /\ SumOf([g \in 1..Len(summary_df) |-> summary_df[g].Percent]) * total_frames
         = 1000 * (total_frames - Cardinality(MarkedRecords))

\* C6 amended: in feature_counts Percent is exactly 100 * Count / total_frames
\* with total_frames counting every merged record, so those values sum to
\* 100 * matched_frames / total_frames, below 100 whenever a record is
\* unmatched; the summary reports each value rounded to one decimal.
C6_RoundedPercent ==
  /\ Counted =>
       /\ total_frames = Len(rmsd_df)
       /\ \A g \in 1..Len(feature_counts) :
            /\ feature_counts[g].Percent.den = total_frames
            /\ feature_counts[g].Percent.num = 100 * feature_counts[g].Count
            /\ feature_counts[g].Count =
                 Cardinality(Members(feature_counts[g].Features))
       /\ SumOf([g \in 1..Len(feature_counts) |-> feature_counts[g].Percent.num])
            = 100 * (total_frames - Cardinality(MarkedRecords))
       /\ (MarkedRecords # {} /\ feature_counts # <<>>) =>
            SumOf([g \in 1..Len(feature_counts) |-> feature_counts[g].Percent.num])
              < 100 * total_frames
  /\ Summarized =>
       \A g \in 1..Len(summary_df) :
         2 * Distance(summary_df[g].Percent * total_frames,
                      1000 * summary_df[g].Count) <= total_frames

\* a group holding two of three records, the third being unmatched: 66.7
C6_Witness ==
  /\ Summarized
  /\ total_frames = 3
  /\ MarkedRecords # {}
  /\ \E g \in 1..Len(summary_df) :
       summary_df[g].Count = 2 /\ summary_df[g].Percent = 667

InPlot(row) == \E i \in 1..Len(plot_df) : plot_df[i] = row

PlotSelectionSound ==
  /\ \A i \in 1..Len(plot_df) :
       /\ plot_df[i].Length \notin exclude_lengths
       /\ \E g \in 1..Len(summary_df) : summary_df[g] = plot_df[i]
  /\ Len(plot_df) <= topn
  /\ \A g \in 1..Len(summary_df) :
       (summary_df[g].Length \notin exclude_lengths /\ ~InPlot(summary_df[g])) =>
         /\ Len(plot_df) = topn
         /\ \A i \in 1..Len(plot_df) : summary_df[g].Percent <= plot_df[i].Percent

\* C7 as stated: plot_df holds no group of an excluded Length, at most top_n
\* groups, strictly ordered by Percent descending, and every non-excluded
\* group left out has a Percent no greater than every group included.
C7_StrictlyDescending ==
  Charted =>
    /\ PlotSelectionSound
    /\ \A i \in 1..(Len(plot_df) - 1) : plot_df[i].Percent > plot_df[i + 1].Percent

\* C7 amended: plot_df holds no group of an excluded Length, at most top_n
\* groups, ordered by Percent non-increasing (groups of equal Percent may
\* follow one another), and every non-excluded group left out has a Percent
\* no greater than every group included.
C7_Descending ==
  Charted =>
    /\ PlotSelectionSound
    /\ \A i \in 1..(Len(plot_df) - 1) : plot_df[i].Percent >= plot_df[i + 1].Percent

\* top_n groups are plotted, one non-excluded group is left out, one group of
\* an excluded Length exists, and the plotted Percent values are not all equal
C7_Witness ==
  /\ Charted
  /\ Len(plot_df) = topn
  /\ \E g \in 1..Len(summary_df) :
       summary_df[g].Length \notin exclude_lengths /\ ~InPlot(summary_df[g])
  /\ \E g \in 1..Len(summary_df) : summary_df[g].Length \in exclude_lengths
  /\ plot_df[1].Percent > plot_df[Len(plot_df)].Percent

\* the two frames have records, their tables parse, and their label lists
\* differ at most in digit characters
SameLabelsUpToDigits(a, b) ==
  /\ Len(a) = Len(b)
  /\ \A i \in 1..Len(a) : StripDigits(a[i]) = StripDigits(b[i])

NoDigit(str) == \A i \in 1..Len(str) : str[i] \notin Digits

HasRecord(frame_id) == \E i \in 1..Len(rmsd_df) : rmsd_df[i].Frame_ID = frame_id

\* C8: the signature is the concatenation, in table order, of the labels with
\* every digit removed; two frames whose label lists differ only in numeric
\* instance indices receive the same signature and fall into the same
\* hypothesis group; normalizing a normalized label list gives the same
\* signature.
C8_SameSignatureSameGroup ==
  Counted =>
    \A a, b \in 1..Len(csv_files) :
      LET fa == csv_files[a]
          fb == csv_files[b]
      IN  (/\ a < b
           /\ Usable(fa.df) /\ Usable(fb.df)
           /\ SameLabelsUpToDigits(features_raw(fa.df), features_raw(fb.df))
           /\ HasRecord(fa.frame_id) /\ HasRecord(fb.frame_id)) =>
            LET sig == frame_feature_map[fa.frame_id]
            IN  /\ sig = frame_feature_map[fb.frame_id]
                /\ NoDigit(sig)
                /\ Len(sig) = SumOf([i \in 1..Len(features_raw(fa.df)) |->
                                       Len(StripDigits(features_raw(fa.df)[i]))])
                /\ features_clean(<<sig>>) = sig
                /\ \E g \in 1..Len(feature_counts) :
                     /\ feature_counts[g].Features = sig
                     /\ \A i \in 1..Len(rmsd_df) :
                          rmsd_df[i].Frame_ID \in {fa.frame_id, fb.frame_id} =>
                            rmsd_df[i].Features = feature_counts[g].Features

PositionIn(rows, row) == CHOOSE i \in 1..Len(rows) : rows[i] = row

\* C9: summary_df lists all groups in non-increasing Count order and the sort
\* is stable: two groups of equal Count keep the relative order they had in
\* the record list built before sorting.
C9_StableCountOrder ==
  Summarized =>
    /\ Len(summary_df) = Len(summary_records)
    /\ \A i \in 1..Len(summary_records) :
         \E j \in 1..Len(summary_df) : summary_df[j] = summary_records[i]
    /\ \A i \in 1..(Len(summary_df) - 1) :
         summary_df[i].Count >= summary_df[i + 1].Count
    /\ \A i, j \in 1..Len(summary_records) :
         (i < j /\ summary_records[i].Count = summary_records[j].Count) =>
           PositionIn(summary_df, summary_records[i])
             < PositionIn(summary_df, summary_records[j])

\* What the default sort kind does guarantee: a rearrangement of the record
\* list in non-increasing Count order.
CountOrderOnly ==
  Summarized =>
    /\ Len(summary_df) = Len(summary_records)
    /\ \A i \in 1..Len(summary_records) :
         \E j \in 1..Len(summary_df) : summary_df[j] = summary_records[i]
    /\ \A i \in 1..(Len(summary_df) - 1) :
         summary_df[i].Count >= summary_df[i + 1].Count

\* the groups of Length >= 4, in the order of the full summary
LongGroups == SelectSeq(summary_df, LAMBDA row : row.Length >= MinBestLength)

Min(a, b) == IF a <= b THEN a ELSE b

FramesOf(rows, n) == {rows[i].Frame : i \in 1..n}

Range(seq) == {seq[i] : i \in 1..Len(seq)}

\* C10: the export processes exactly the first min(3, k) of the k groups with
\* Length >= 4, in full-summary order, whatever exclude_lengths and top_n
\* are, attempting one copy per representative frame; a missing artifact
\* only adds a warning, the remaining frames are still processed, and the run
\* completes.
C10_BestExport ==
  /\ Selected =>
       /\ Len(filtered_summary) = Min(BestCount, Len(LongGroups))
       /\ \A i \in 1..Len(filtered_summary) : filtered_summary[i] = LongGroups[i]
       /\ Range(best_hypotheses) \cap Range(missing_warnings) = {}
       /\ Len(best_hypotheses) + Len(missing_warnings)
            = Cardinality(Range(best_hypotheses) \cup Range(missing_warnings))
  /\ pc = "export" =>
       /\ k \in 1..(Len(filtered_summary) + 1)
       /\ Range(best_hypotheses) \cup Range(missing_warnings)
            = FramesOf(filtered_summary, k - 1)
  /\ pc = "done" =>
       Range(best_hypotheses) \cup Range(missing_warnings)
         = FramesOf(filtered_summary, Len(filtered_summary))
  /\ ~Selected => best_hypotheses = <<>> /\ missing_warnings = <<>>

\* more than three groups of Length >= 4; the artifact of the first selected
\* frame was missing, those of the two behind it were copied, the run is done
C10_Witness ==
  /\ pc = "done"
  /\ Len(LongGroups) > BestCount
  /\ Len(filtered_summary) = BestCount
  /\ missing_warnings = <<filtered_summary[1].Frame>>
  /\ best_hypotheses = <<filtered_summary[2].Frame, filtered_summary[3].Frame>>

====
